---- MODULE Spec2Model ----
(***************************************************************************)
(* A model of shiva's markdown transformer (lib/src/markdown.rs):          *)
(*   - parse_with_loader: the tree builder, one action per arm of the      *)
(*     match over the pulldown-cmark events;                               *)
(*   - generate_with_saver / element_to_ast_node: the lowering of a        *)
(*     Document into the comrak output tree.                               *)
(* Strings are sequences of characters (push_str is \o), a Vec is a        *)
(* sequence, an enum value is a record with a "kind" field.                *)
(***************************************************************************)
EXTENDS Integers, Sequences, FiniteSets, TLC

VARIABLES
    md_iterator,      \* the events the tokenizer has produced so far
    pos,              \* how many of them the loop has taken
    elements,         \* Vec<Element>: the sealed top-level elements
    current_element,  \* Option<Element>: the open top-level scope
    list_depth,       \* i32
    table_element,    \* Option<(bool, Element)>
    result,           \* "running", "Ok", or how the call ended abnormally
    document,         \* the returned Document once result = "Ok"
    generated,        \* the calls of generate_with_saver so far, with their outcome
    image_num,        \* the RefCell<i32> of the latest generate_with_saver call
    original,         \* round trip: the Document of the first build
    walk,             \* round trip: how the output tree was re-tokenized
    other             \* the locals of a second conversion while this one runs

vars == <<md_iterator, pos, elements, current_element, list_depth,
          table_element, result, document, generated, image_num, original, walk,
          other>>

lowering == <<generated, image_num>>
roundtrip == <<original, walk>>

builder == <<elements, current_element, list_depth, table_element>>

----------------------------------------------------------------------------
(* Bounds of the model *)

MaxEvents == 4

----------------------------------------------------------------------------
(* The data model (crate::core) as far as markdown.rs builds it *)

None == [kind |-> "None"]

TextSize == 14

HeaderWidth == 30

EmptyString == << >>

TextEl(t) == [kind |-> "Text", text |-> t, size |-> TextSize]

HeaderEl(l, t) == [kind |-> "Header", level |-> l, text |-> t]

ParagraphEl(els) == [kind |-> "Paragraph", elements |-> els]

ListEl(items, numbered) == [kind |-> "List", elements |-> items, numbered |-> numbered]

ListItem(el) == [element |-> el]

HyperlinkEl(title, url) ==
    [kind |-> "Hyperlink", title |-> title, url |-> url, alt |-> <<"a", "l", "t">>,
     size |-> TextSize]

ImageEl(bytes, title, url) ==
    [kind |-> "Image", bytes |-> bytes, title |-> title, alt |-> title,
     image_type |-> url]

TableEl(headers, rows) == [kind |-> "Table", headers |-> headers, rows |-> rows]

TableHeader(t) == [element |-> TextEl(t), width |-> HeaderWidth]

TableCell(t) == [element |-> TextEl(t)]

TableRow(cells) == [cells |-> cells]

----------------------------------------------------------------------------
(* The events of pulldown_cmark *)

StartEv(tag) ==
    [type |-> "Start", tag |-> tag, level |-> "", numbered |-> FALSE,
     url |-> "", text |-> EmptyString]

HeadingEv(l) == [StartEv("Heading") EXCEPT !.level = l]

(* match level { HeadingLevel::H1 => 1, ... } *)
HeadingLevel(l) ==
    CASE l = "H1" -> 1
      [] l = "H2" -> 2
      [] l = "H3" -> 3
      [] l = "H4" -> 4
      [] l = "H5" -> 5
      [] l = "H6" -> 6

ListEv(numbered) == [StartEv("List") EXCEPT !.numbered = numbered]

ImageEv(url) == [StartEv("Image") EXCEPT !.url = url]

LinkEv(url) == [StartEv("Link") EXCEPT !.url = url]

TextEv(t) == [StartEv("") EXCEPT !.type = "Text", !.text = t]

EndEv(tag) == [StartEv(tag) EXCEPT !.type = "End"]

OtherEv == [StartEv("") EXCEPT !.type = "SoftBreak"]

(* The image loader handed to parse_with_loader: it resolves some urls and *)
(* fails on the others.                                                    *)
LoadableUrls == {"ok.png"}

image_loader(url) ==
    IF url \in LoadableUrls
    THEN [ok |-> TRUE, bytes |-> <<"bytes of", url>>]
    ELSE [ok |-> FALSE, bytes |-> << >>]

----------------------------------------------------------------------------
(* process_element_creation *)

RECURSIVE DescendAndPush(_, _, _)

(* PushListItem with the test `if let Text { .. } = element` left out: the *)
(* last item is dropped whatever it holds.                                 *)
PushListItemPopsAny(li_vec, el) ==
    LET n == Len(li_vec)
        popped ==
            IF el.kind \in {"Hyperlink", "Header"} /\ n > 0
            THEN SubSeq(li_vec, 1, n - 1)
            ELSE li_vec
    IN Append(popped, ListItem(el))

(* The target level reached: drop a trailing Text item before a Hyperlink  *)
(* or a Header, then push the new item.                                    *)
PushListItem(li_vec, el) ==
    LET n == Len(li_vec)
        popped ==
            IF el.kind \in {"Hyperlink", "Header"} /\ n > 0
               /\ li_vec[n].element.kind = "Text"
            THEN SubSeq(li_vec, 1, n - 1)
            ELSE li_vec
    IN Append(popped, ListItem(el))

(* for _ in 1..list_depth, then the push. fault says how the walk ended.   *)
DescendAndPush(li_vec, steps, el) ==
    IF steps <= 0
    THEN [fault |-> "none", vec |-> PushListItem(li_vec, el)]
    ELSE IF Len(li_vec) = 0
    THEN [fault |-> "IndexOutOfRange", vec |-> li_vec]
    ELSE LET last == li_vec[Len(li_vec)].element IN
         IF last.kind # "List"
         THEN [fault |-> "ExpectedNestedList", vec |-> li_vec]
         ELSE LET r == DescendAndPush(last.elements, steps - 1, el) IN
              [fault |-> r.fault,
               vec |-> IF r.fault = "none"
                       THEN [li_vec EXCEPT ![Len(li_vec)] =
                                ListItem([last EXCEPT !.elements = r.vec])]
                       ELSE li_vec]

(* process_element_creation with the loop written 0..list_depth: one      *)
(* level too deep.                                                         *)
process_element_creation_one_deeper(cur, el, depth) ==
    IF cur = None
    THEN [fault |-> "none", cur |-> el]
    ELSE IF cur.kind = "List"
    THEN LET r == DescendAndPush(cur.elements, depth, el) IN
         [fault |-> r.fault,
          cur |-> IF r.fault = "none" THEN [cur EXCEPT !.elements = r.vec] ELSE cur]
    ELSE [fault |-> "none", cur |-> cur]

(* process_element_creation with the arm `_ => {}` of a scope that is not  *)
(* a List replacing the scope by the new element.                          *)
process_element_creation_replaces_scope(cur, el, depth) ==
    IF cur = None
    THEN [fault |-> "none", cur |-> el]
    ELSE IF cur.kind = "List"
    THEN LET r == DescendAndPush(cur.elements, depth - 1, el) IN
         [fault |-> r.fault,
          cur |-> IF r.fault = "none" THEN [cur EXCEPT !.elements = r.vec] ELSE cur]
    ELSE [fault |-> "none", cur |-> el]

process_element_creation(cur, el, depth) ==
    IF cur = None
    THEN [fault |-> "none", cur |-> el]
    ELSE IF cur.kind = "List"
    THEN LET r == DescendAndPush(cur.elements, depth - 1, el) IN
         [fault |-> r.fault,
          cur |-> IF r.fault = "none" THEN [cur EXCEPT !.elements = r.vec] ELSE cur]
    ELSE [fault |-> "none", cur |-> cur]

----------------------------------------------------------------------------
(* Event::Text *)

RECURSIVE DescendAndSetText(_, _, _)

(* SetItemText with the three arms alike: every kind of item has the text  *)
(* pushed onto what it holds.                                              *)
SetItemTextAlwaysAppends(item, text) ==
    LET e == item.element IN
    IF e.kind = "Text" THEN ListItem([e EXCEPT !.text = e.text \o text])
    ELSE IF e.kind = "Hyperlink" THEN ListItem([e EXCEPT !.title = e.title \o text])
    ELSE IF e.kind = "Header" THEN ListItem([e EXCEPT !.text = e.text \o text])
    ELSE item

(* match &mut li.element: Text appends, Hyperlink and Header overwrite.    *)
SetItemText(item, text) ==
    LET e == item.element IN
    IF e.kind = "Text" THEN ListItem([e EXCEPT !.text = e.text \o text])
    ELSE IF e.kind = "Hyperlink" THEN ListItem([e EXCEPT !.title = text])
    ELSE IF e.kind = "Header" THEN ListItem([e EXCEPT !.text = text])
    ELSE item

DescendAndSetText(li_vec, steps, text) ==
    IF steps <= 0
    THEN IF Len(li_vec) = 0
         THEN [fault |-> "UnwrapOnNone", vec |-> li_vec]
         ELSE [fault |-> "none",
               vec |-> [li_vec EXCEPT ![Len(li_vec)] = SetItemText(@, text)]]
    ELSE IF Len(li_vec) = 0
    THEN [fault |-> "IndexOutOfRange", vec |-> li_vec]
    ELSE LET last == li_vec[Len(li_vec)].element IN
         IF last.kind # "List"
         THEN [fault |-> "ExpectedNestedList", vec |-> li_vec]
         ELSE LET r == DescendAndSetText(last.elements, steps - 1, text) IN
              [fault |-> r.fault,
               vec |-> IF r.fault = "none"
                       THEN [li_vec EXCEPT ![Len(li_vec)] =
                                ListItem([last EXCEPT !.elements = r.vec])]
                       ELSE li_vec]

(* TextIntoCurrent with the Header arm written like the list's Header arm: *)
(* the text is replaced, not extended.                                     *)
TextIntoCurrentHeaderOverwritten(cur, text, depth) ==
    IF cur = None THEN [fault |-> "none", cur |-> cur]
    ELSE IF cur.kind = "Paragraph"
    THEN [fault |-> "none",
          cur |-> [cur EXCEPT !.elements = Append(@, TextEl(text))]]
    ELSE IF cur.kind = "Header"
    THEN [fault |-> "none", cur |-> [cur EXCEPT !.text = text]]
    ELSE IF cur.kind = "List"
    THEN LET r == DescendAndSetText(cur.elements, depth - 1, text) IN
         [fault |-> r.fault,
          cur |-> IF r.fault = "none" THEN [cur EXCEPT !.elements = r.vec] ELSE cur]
    ELSE IF cur.kind = "Image"
    THEN [fault |-> "none", cur |-> [cur EXCEPT !.alt = text]]
    ELSE [fault |-> "none", cur |-> cur]

(* TextIntoCurrent with the Paragraph arm assigning vec![Text] instead of  *)
(* pushing: the runs received before are lost.                             *)
TextIntoCurrentParagraphReplaced(cur, text, depth) ==
    IF cur = None THEN [fault |-> "none", cur |-> cur]
    ELSE IF cur.kind = "Paragraph"
    THEN [fault |-> "none", cur |-> [cur EXCEPT !.elements = <<TextEl(text)>>]]
    ELSE IF cur.kind = "Header"
    THEN [fault |-> "none", cur |-> [cur EXCEPT !.text = @ \o text]]
    ELSE IF cur.kind = "List"
    THEN LET r == DescendAndSetText(cur.elements, depth - 1, text) IN
         [fault |-> r.fault,
          cur |-> IF r.fault = "none" THEN [cur EXCEPT !.elements = r.vec] ELSE cur]
    ELSE IF cur.kind = "Image"
    THEN [fault |-> "none", cur |-> [cur EXCEPT !.alt = text]]
    ELSE [fault |-> "none", cur |-> cur]

(* The first half of the Text arm: the open top-level scope.               *)
TextIntoCurrent(cur, text, depth) ==
    IF cur = None THEN [fault |-> "none", cur |-> cur]
    ELSE IF cur.kind = "Paragraph"
    THEN [fault |-> "none",
          cur |-> [cur EXCEPT !.elements = Append(@, TextEl(text))]]
    ELSE IF cur.kind = "Header"
    THEN [fault |-> "none", cur |-> [cur EXCEPT !.text = @ \o text]]
    ELSE IF cur.kind = "List"
    THEN LET r == DescendAndSetText(cur.elements, depth - 1, text) IN
         [fault |-> r.fault,
          cur |-> IF r.fault = "none" THEN [cur EXCEPT !.elements = r.vec] ELSE cur]
    ELSE IF cur.kind = "Image"
    THEN [fault |-> "none", cur |-> [cur EXCEPT !.alt = text]]
    ELSE [fault |-> "none", cur |-> cur]

(* TextIntoRows with the last row compared to rows.len(), not to           *)
(* headers.len().                                                          *)
TextIntoRowsComparedToRows(headers, rows, text) ==
    IF Len(rows) = 0
    THEN Append(rows, TableRow(<<TableCell(text)>>))
    ELSE IF Len(rows[Len(rows)].cells) = Len(rows)
    THEN Append(rows, TableRow(<<TableCell(text)>>))
    ELSE [rows EXCEPT ![Len(rows)].cells = Append(@, TableCell(text))]

(* TextIntoRows with the last row compared to headers.len() + 1: a row     *)
(* takes one cell too many.                                                *)
TextIntoRowsOnePastHeaders(headers, rows, text) ==
    IF Len(rows) = 0
    THEN Append(rows, TableRow(<<TableCell(text)>>))
    ELSE IF Len(rows[Len(rows)].cells) = Len(headers) + 1
    THEN Append(rows, TableRow(<<TableCell(text)>>))
    ELSE [rows EXCEPT ![Len(rows)].cells = Append(@, TableCell(text))]

(* The second half of the Text arm: the open table.                        *)
TextIntoRows(headers, rows, text) ==
    IF Len(rows) = 0
    THEN Append(rows, TableRow(<<TableCell(text)>>))
    ELSE IF Len(rows[Len(rows)].cells) = Len(headers)
    THEN Append(rows, TableRow(<<TableCell(text)>>))
    ELSE [rows EXCEPT ![Len(rows)].cells = Append(@, TableCell(text))]

TextIntoTable(t_el, text) ==
    IF t_el = None THEN t_el
    ELSE IF t_el.is_header
    THEN [t_el EXCEPT !.table.headers = Append(@, TableHeader(text))]
    ELSE [t_el EXCEPT !.table.rows = TextIntoRows(t_el.table.headers, @, text)]

SomeTable(is_header, table) ==
    [kind |-> "Some", is_header |-> is_header, table |-> table]

----------------------------------------------------------------------------
(* Event::End *)

(* SealCurrent with elements.insert(0, curr_el) instead of push. *)
SealCurrentInFront(cur, els) ==
    IF cur = None THEN [cur |-> None, els |-> els]
    ELSE IF cur.kind = "List" THEN [cur |-> cur, els |-> els]
    ELSE [cur |-> None, els |-> <<cur>> \o els]

(* SealCurrent without the List arm: an open List is sealed too. *)
SealCurrentAnyScope(cur, els) ==
    IF cur = None THEN [cur |-> None, els |-> els]
    ELSE [cur |-> None, els |-> Append(els, cur)]

(* TagEnd::Paragraph | Heading | Link | Image *)
SealCurrent(cur, els) ==
    IF cur = None THEN [cur |-> None, els |-> els]
    ELSE IF cur.kind = "List" THEN [cur |-> cur, els |-> els]
    ELSE [cur |-> None, els |-> Append(els, cur)]

(* SealList without the test list_depth == 0: every List end seals. *)
SealListAtEveryEnd(cur, els, depth) ==
    [cur |-> None, els |-> IF cur = None THEN els ELSE Append(els, cur),
     depth |-> depth - 1]

(* TagEnd::List *)
SealList(cur, els, depth) ==
    IF depth - 1 = 0
    THEN [cur |-> None, els |-> IF cur = None THEN els ELSE Append(els, cur),
          depth |-> depth - 1]
    ELSE [cur |-> cur, els |-> els, depth |-> depth - 1]

(* Document::new(elements) *)
Document(els) == [kind |-> "Document", elements |-> els,
                  page_header |-> << >>, page_footer |-> << >>]

----------------------------------------------------------------------------
(* What an event stream says about itself, whatever the builder does *)

Last(s) == s[Len(s)]

Front(s) == SubSeq(s, 1, Len(s) - 1)

RECURSIVE RemoveLast(_, _)
RemoveLast(s, tag) ==
    IF s = << >> THEN s
    ELSE IF Last(s) = tag THEN Front(s)
    ELSE Append(RemoveLast(Front(s), tag), Last(s))

(* The start tags of the stream not yet ended, innermost last. *)
RECURSIVE ScopesOf(_)
ScopesOf(stream) ==
    IF stream = << >> THEN << >>
    ELSE LET before == ScopesOf(Front(stream))
             ev == Last(stream)
         IN IF ev.type = "Start" THEN Append(before, ev.tag)
            ELSE IF ev.type = "End" THEN RemoveLast(before, ev.tag)
            ELSE before

Count(s, tag) == Cardinality({i \in 1..Len(s) : s[i] = tag})

(* Every end of the stream closes the innermost open scope. *)
ProperlyNested(stream) ==
    \A i \in 1..Len(stream) :
        stream[i].type = "End" =>
            LET open == ScopesOf(SubSeq(stream, 1, i - 1)) IN
            open # << >> /\ Last(open) = stream[i].tag

(* Some List end of the stream arrives while no List scope is open. *)
StrayListEnd(stream) ==
    \E i \in 1..Len(stream) :
        /\ stream[i].type = "End"
        /\ stream[i].tag = "List"
        /\ Count(ScopesOf(SubSeq(stream, 1, i - 1)), "List") = 0

(* The events the loop has taken. *)
Taken == SubSeq(md_iterator, 1, pos)

----------------------------------------------------------------------------
(* for event in md_iterator *)

Running == result = "running" /\ pos < Len(md_iterator)

Event == md_iterator[pos + 1]

IsStart(tag) == Running /\ Event.type = "Start" /\ Event.tag = tag

IsEnd(tag) == Running /\ Event.type = "End" /\ Event.tag = tag

(* The event leaves the iterator. *)
Take ==
    /\ pos' = pos + 1
    /\ UNCHANGED <<md_iterator, document, lowering, roundtrip, other>>

(* A panic unwinds the call: nothing is returned. *)
Outcome(fault) == result' = IF fault = "none" THEN "running" ELSE fault

(* A start arm that only calls process_element_creation. *)
Create(el, depth_after) ==
    LET r == process_element_creation(current_element, el, list_depth) IN
    /\ Outcome(r.fault)
    /\ current_element' = r.cur
    /\ list_depth' = IF r.fault = "none" THEN depth_after ELSE list_depth
    /\ UNCHANGED <<elements, table_element>>

StartParagraph ==
    /\ IsStart("Paragraph")
    /\ Create(ParagraphEl(<< >>), list_depth)
    /\ Take

StartHeading ==
    /\ IsStart("Heading")
    /\ Create(HeaderEl(HeadingLevel(Event.level), EmptyString), list_depth)
    /\ Take

StartList ==
    /\ IsStart("List")
    /\ Create(ListEl(<< >>, Event.numbered), list_depth + 1)
    /\ Take

StartItem ==
    /\ IsStart("Item")
    /\ Create(TextEl(EmptyString), list_depth)
    /\ Take

StartTable ==
    /\ IsStart("Table")
    /\ table_element' = SomeTable(FALSE, TableEl(<< >>, << >>))
    /\ UNCHANGED <<elements, current_element, list_depth, result>>
    /\ Take

StartTableHead ==
    /\ IsStart("TableHead")
    /\ table_element' = IF table_element = None THEN None
                        ELSE [table_element EXCEPT !.is_header = TRUE]
    /\ UNCHANGED <<elements, current_element, list_depth, result>>
    /\ Take

(* StartImage with the ? after image_loader(..) forgotten: a failed load   *)
(* is taken for an empty image.                                            *)
StartImageSwallowsError ==
    /\ IsStart("Image")
    /\ LET loaded == image_loader(Event.url)
           r == process_element_creation(
                    None, ImageEl(loaded.bytes, EmptyString, Event.url), list_depth)
       IN /\ current_element' = r.cur
          /\ Outcome(r.fault)
    /\ UNCHANGED <<elements, list_depth, table_element>>
    /\ Take

(* StartImage without current_element = None: the image is inserted like  *)
(* any other element.                                                      *)
StartImageKeepsScope ==
    /\ IsStart("Image")
    /\ LET loaded == image_loader(Event.url) IN
       IF loaded.ok
       THEN LET r == process_element_creation(
                         current_element,
                         ImageEl(loaded.bytes, EmptyString, Event.url),
                         list_depth) IN
            /\ current_element' = r.cur
            /\ Outcome(r.fault)
       ELSE /\ result' = "ImageLoadFailed"
            /\ UNCHANGED current_element
    /\ UNCHANGED <<elements, list_depth, table_element>>
    /\ Take

StartImage ==
    /\ IsStart("Image")
    /\ LET loaded == image_loader(Event.url) IN
       IF loaded.ok
       THEN LET r == process_element_creation(
                         None, ImageEl(loaded.bytes, EmptyString, Event.url),
                         list_depth) IN
            /\ current_element' = r.cur
            /\ Outcome(r.fault)
       ELSE /\ result' = "ImageLoadFailed"
            /\ UNCHANGED current_element
    /\ UNCHANGED <<elements, list_depth, table_element>>
    /\ Take

StartLink ==
    /\ IsStart("Link")
    /\ Create(HyperlinkEl(EmptyString, Event.url), list_depth)
    /\ Take

RecognizedStarts ==
    {"Paragraph", "Heading", "List", "Item", "Table", "TableHead", "Image", "Link"}

RecognizedEnds ==
    {"Paragraph", "Heading", "Link", "Image", "List", "TableHead", "Table"}

(* Ignored with TagEnd::Item added to the arm of the scope ends: the end   *)
(* of an item seals the open scope, and every other unrecognized event is  *)
(* skipped.                                                                *)
IgnoredButItemEndSeals ==
    /\ Running
    /\ \/ Event.type = "Start" /\ Event.tag \notin RecognizedStarts
       \/ Event.type = "End" /\ Event.tag \notin RecognizedEnds
       \/ Event.type \notin {"Start", "Text", "End"}
    /\ LET r == IF Event.type = "End" /\ Event.tag = "Item"
                THEN SealCurrentAnyScope(current_element, elements)
                ELSE [cur |-> current_element, els |-> elements]
       IN /\ current_element' = r.cur
          /\ elements' = r.els
    /\ UNCHANGED <<list_depth, table_element, result>>
    /\ Take

(* _rest => {} of the starts, _ => {} of the ends, _ => {} of the events *)
Ignored ==
    /\ Running
    /\ \/ Event.type = "Start" /\ Event.tag \notin RecognizedStarts
       \/ Event.type = "End" /\ Event.tag \notin RecognizedEnds
       \/ Event.type \notin {"Start", "Text", "End"}
    /\ UNCHANGED <<elements, current_element, list_depth, table_element, result>>
    /\ Take

Text ==
    /\ Running
    /\ Event.type = "Text"
    /\ LET r == TextIntoCurrent(current_element, Event.text, list_depth) IN
       /\ Outcome(r.fault)
       /\ current_element' = r.cur
       /\ table_element' = IF r.fault = "none"
                           THEN TextIntoTable(table_element, Event.text)
                           ELSE table_element
    /\ UNCHANGED <<elements, list_depth>>
    /\ Take

EndScope ==
    /\ Running
    /\ Event.type = "End"
    /\ Event.tag \in {"Paragraph", "Heading", "Link", "Image"}
    /\ LET r == SealCurrent(current_element, elements) IN
       /\ current_element' = r.cur
       /\ elements' = r.els
    /\ UNCHANGED <<list_depth, table_element, result>>
    /\ Take

EndList ==
    /\ IsEnd("List")
    /\ LET r == SealList(current_element, elements, list_depth) IN
       /\ current_element' = r.cur
       /\ elements' = r.els
       /\ list_depth' = r.depth
    /\ UNCHANGED <<table_element, result>>
    /\ Take

EndTableHead ==
    /\ IsEnd("TableHead")
    /\ table_element' = IF table_element = None THEN None
                        ELSE [table_element EXCEPT !.is_header = FALSE]
    /\ UNCHANGED <<elements, current_element, list_depth, result>>
    /\ Take

EndTable ==
    /\ IsEnd("Table")
    /\ table_element' = None
    /\ elements' = IF table_element = None THEN elements
                   ELSE Append(elements, table_element.table)
    /\ UNCHANGED <<current_element, list_depth, result>>
    /\ Take

(* Finish with the scope still open pushed onto elements before the       *)
(* Document is made.                                                       *)
FinishFlushesOpenScope ==
    /\ result = "running"
    /\ pos = Len(md_iterator)
    /\ result' = "Ok"
    /\ document' = Document(IF current_element = None THEN elements
                            ELSE Append(elements, current_element))
    /\ UNCHANGED <<md_iterator, pos, builder, lowering, roundtrip, other>>

(* The iterator is exhausted: Ok(Document::new(elements)) *)
Finish ==
    /\ result = "running"
    /\ pos = Len(md_iterator)
    /\ result' = "Ok"
    /\ document' = Document(elements)
    /\ UNCHANGED <<md_iterator, pos, builder, lowering, roundtrip, other>>

----------------------------------------------------------------------------
(* The tokenizer: any event may come next *)

AnyEvents ==
    {StartEv(t) : t \in {"Paragraph", "Item", "Table", "TableHead", "BlockQuote"}}
    \cup {HeadingEv("H1"), ListEv(FALSE), ImageEv("ok.png"), ImageEv("bad.png"),
          LinkEv("u")}
    \cup {TextEv(<<"a">>)}
    \cup {EndEv(t) : t \in {"Paragraph", "Image", "List", "TableHead", "Table", "Item"}}
    \cup {OtherEv}

(* The builder's state before the first event (lines 75-90). *)
InitBuilder ==
    /\ pos = 0
    /\ elements = << >>
    /\ current_element = None
    /\ list_depth = 0
    /\ table_element = None
    /\ result = "running"
    /\ document = None
    /\ generated = << >>
    /\ image_num = 0
    /\ original = None
    /\ walk = "none"

Init ==
    /\ md_iterator = << >>
    /\ InitBuilder
    /\ other = None

Tokenize ==
    /\ result = "running"
    /\ original = None
    /\ pos = Len(md_iterator)
    /\ Len(md_iterator) < MaxEvents
    /\ \E ev \in AnyEvents : md_iterator' = Append(md_iterator, ev)
    /\ UNCHANGED <<pos, builder, result, document, lowering, roundtrip, other>>

Next ==
    \/ Tokenize
    \/ StartParagraph
    \/ StartHeading
    \/ StartList
    \/ StartItem
    \/ StartTable
    \/ StartTableHead
    \/ StartImage
    \/ StartLink
    \/ Ignored
    \/ Text
    \/ EndScope
    \/ EndList
    \/ EndTableHead
    \/ EndTable
    \/ Finish

Spec == Init /\ [][Next]_vars

----------------------------------------------------------------------------
(* The tokenizer on a document that holds only tables: a Table scope opens *)
(* with its TableHead scope, which holds at least one text, and text comes *)
(* inside the table.                                                       *)

MaxTableEvents == 10

Texts == {<<"a">>, <<"b">>}

TableEvents ==
    {StartEv("Table"), StartEv("TableHead"), EndEv("TableHead"), EndEv("Table")}
    \cup {TextEv(t) : t \in Texts}

TableGrammar(stream, ev) ==
    LET open == ScopesOf(stream) IN
    IF ev = StartEv("Table") THEN open = << >>
    ELSE IF ev = StartEv("TableHead")
    THEN stream # << >> /\ Last(stream) = StartEv("Table")
    ELSE IF ev = EndEv("TableHead")
    THEN open # << >> /\ Last(open) = "TableHead" /\ Last(stream).type = "Text"
    ELSE IF ev = EndEv("Table")
    THEN open = <<"Table">> /\ Last(stream) # StartEv("Table")
    ELSE open # << >> /\ Last(stream) # StartEv("Table")

TokenizeTable ==
    /\ result = "running"
    /\ original = None
    /\ pos = Len(md_iterator)
    /\ Len(md_iterator) < MaxTableEvents
    /\ \E ev \in TableEvents :
          /\ TableGrammar(md_iterator, ev)
          /\ md_iterator' = Append(md_iterator, ev)
    /\ UNCHANGED <<pos, builder, result, document, lowering, roundtrip, other>>

NextTable ==
    \/ TokenizeTable
    \/ StartTable
    \/ StartTableHead
    \/ Text
    \/ EndTableHead
    \/ EndTable
    \/ Finish

SpecTable == Init /\ [][NextTable]_vars

----------------------------------------------------------------------------
(* Properties of the builder *)

TablesOf(els) == {i \in 1..Len(els) : els[i].kind = "Table"}

Rectangular(table) ==
    \A j \in 1..Len(table.rows) :
        Len(table.rows[j].cells) = Len(table.headers)

(* C1: every Table of the returned Document has rows whose cell count      *)
(* equals the table's header count, for any event stream.                  *)
C1_TableShape ==
    result = "Ok" =>
        \A i \in TablesOf(document.elements) : Rectangular(document.elements[i])

(* C2: a stream holding a List end while no List scope is open makes build *)
(* end with the structural invariant violation, and in no other way.       *)
C2_StrayListEndSurfaces ==
    (StrayListEnd(Taken) /\ result # "running") => result = "ExpectedNestedList"

IsFailedImage(ev) ==
    ev.type = "Start" /\ ev.tag = "Image" /\ ~image_loader(ev.url).ok

(* C6: an Image start whose load fails ends build with the image-load      *)
(* error: it is the last event taken, and no Document is returned, sealed  *)
(* elements or not.                                                        *)
C6_ImageLoadFailureAborts ==
    /\ \A i \in 1..pos :
          IsFailedImage(md_iterator[i]) =>
              i = pos /\ result = "ImageLoadFailed" /\ document = None
    /\ result = "ImageLoadFailed" => pos > 0 /\ IsFailedImage(md_iterator[pos])

C6_Witness ==
    /\ result = "ImageLoadFailed"
    /\ elements # << >>
    /\ pos = Len(md_iterator)

----------------------------------------------------------------------------
(* The tokenizer on a document of lists, paragraphs, headings, links and   *)
(* images whose loads succeed: blocks open at the top level or in an item, *)
(* items in a list, inlines and text in a block or an inline, and every    *)
(* end closes the innermost scope.                                         *)

MaxNestedEvents == 7

NestedEvents ==
    {StartEv("Paragraph"), StartEv("Item"), HeadingEv("H1"), ListEv(FALSE),
     ImageEv("ok.png"), LinkEv("u"), TextEv(<<"a">>)}
    \cup {EndEv(t) : t \in {"Paragraph", "Heading", "Link", "Image", "List", "Item"}}

NestedGrammar(stream, ev) ==
    LET open == ScopesOf(stream)
        inner == IF open = << >> THEN "" ELSE Last(open)
    IN IF ev.type = "End"
       THEN /\ inner = ev.tag
            /\ ev.tag = "List" => Last(stream) = EndEv("Item")
       ELSE IF ev.type = "Text"
       THEN inner \in {"Paragraph", "Heading", "Item", "Image", "Link"}
       ELSE IF ev.tag = "Item" THEN inner = "List"
       ELSE IF ev.tag \in {"Image", "Link"}
       THEN inner \in {"Paragraph", "Heading", "Item", "Link"}
       ELSE inner \in {"", "Item"}

TokenizeNested ==
    /\ result = "running"
    /\ original = None
    /\ pos = Len(md_iterator)
    /\ Len(md_iterator) < MaxNestedEvents
    /\ \E ev \in NestedEvents :
          /\ NestedGrammar(md_iterator, ev)
          /\ md_iterator' = Append(md_iterator, ev)
    /\ UNCHANGED <<pos, builder, result, document, lowering, roundtrip, other>>

NextNested ==
    \/ TokenizeNested
    \/ StartParagraph
    \/ StartHeading
    \/ StartList
    \/ StartItem
    \/ StartImage
    \/ StartLink
    \/ Ignored
    \/ Text
    \/ EndScope
    \/ EndList
    \/ Finish

SpecNested == Init /\ [][NextNested]_vars

(* C3: build ends abnormally only when load_image fails or the list        *)
(* descent meets a last item that is not a List (the input being valid     *)
(* text); on a properly nested stream whose images load it takes every     *)
(* event and returns Ok.                                                   *)
C3_OnlyThreeFailures ==
    /\ result \in {"running", "Ok", "ImageLoadFailed", "ExpectedNestedList"}
    /\ (ProperlyNested(Taken) /\ \A i \in 1..pos : ~IsFailedImage(md_iterator[i]))
          => result \in {"running", "Ok"}

----------------------------------------------------------------------------
(* The tokenizer on a document that holds only lists of text items, nested *)
(* to any depth.                                                           *)

MaxListEvents == 12

ListEvents ==
    {ListEv(FALSE), StartEv("Item"), TextEv(<<"a">>), EndEv("Item"), EndEv("List")}

TokenizeList ==
    /\ result = "running"
    /\ original = None
    /\ pos = Len(md_iterator)
    /\ Len(md_iterator) < MaxListEvents
    /\ \E ev \in ListEvents :
          /\ NestedGrammar(md_iterator, ev)
          /\ md_iterator' = Append(md_iterator, ev)
    /\ UNCHANGED <<pos, builder, result, document, lowering, roundtrip, other>>

NextList ==
    \/ TokenizeList
    \/ StartList
    \/ StartItem
    \/ Ignored
    \/ Text
    \/ EndList
    \/ Finish

SpecList == Init /\ [][NextList]_vars

(* The list at nesting level k of an open top-level List: follow the last  *)
(* item's element k-1 times.                                               *)
RECURSIVE LevelExists(_, _)
LevelExists(el, k) ==
    /\ el.kind = "List"
    /\ k > 1 => /\ el.elements # << >>
                /\ LevelExists(Last(el.elements).element, k - 1)

RECURSIVE ListAt(_, _)
ListAt(el, k) ==
    IF k <= 1 THEN el ELSE ListAt(Last(el.elements).element, k - 1)

OpenLists == Count(ScopesOf(Taken), "List")

(* C4: in a properly nested stream of list events, an Item start arriving  *)
(* while k >= 1 List scopes are open appends its ListItem to the list at   *)
(* nesting level k and changes no shallower or deeper list.                *)
C4_ItemAtEventDepth ==
    [][(IsStart("Item") /\ pos' = pos + 1 /\ OpenLists >= 1) =>
          LET k == OpenLists IN
          /\ result' = "running"
          /\ LevelExists(current_element, k)
          /\ LevelExists(current_element', k)
          /\ ListAt(current_element', k).elements =
                Append(ListAt(current_element, k).elements,
                       ListItem(TextEl(EmptyString)))
          /\ \A j \in 1..(k - 1) :
                /\ Len(ListAt(current_element', j).elements) =
                      Len(ListAt(current_element, j).elements)
                /\ Front(ListAt(current_element', j).elements) =
                      Front(ListAt(current_element, j).elements)
                /\ Last(ListAt(current_element', j).elements).element.numbered =
                      Last(ListAt(current_element, j).elements).element.numbered
          /\ current_element'.numbered = current_element.numbered
          /\ elements' = elements]_vars

(* An item placed at level 2 or deeper after a nested list was closed. *)
C4_Witness ==
    /\ pos > 0
    /\ md_iterator[pos] = StartEv("Item")
    /\ result = "running"
    /\ OpenLists >= 2
    /\ \E i \in 1..pos :
          /\ md_iterator[i] = EndEv("List")
          /\ Count(ScopesOf(SubSeq(md_iterator, 1, i)), "List") >= 1
    /\ Len(ListAt(current_element, OpenLists).elements) >= 1

----------------------------------------------------------------------------
(* The stream of tests::test's second list: five text items, then a sixth  *)
(* item holding a nested list of one item.                                 *)

RECURSIVE Repeat(_, _)
Repeat(stream, n) == IF n <= 0 THEN << >> ELSE stream \o Repeat(stream, n - 1)

ItemScope(texts) == <<StartEv("Item")>> \o texts \o <<EndEv("Item")>>

OptionalText == {<< >>} \cup {<<TextEv(t)>> : t \in Texts}

Example3Streams ==
    {<<ListEv(numbered)>> \o Repeat(ItemScope(<<TextEv(t)>>), 5)
        \o <<StartEv("Item")>> \o sixth
        \o <<ListEv(numbered)>> \o ItemScope(inner) \o <<EndEv("List")>>
        \o <<EndEv("Item"), EndEv("List")>> :
     numbered \in BOOLEAN, t \in Texts, sixth \in OptionalText,
     inner \in OptionalText}

InitExample3 ==
    /\ md_iterator \in Example3Streams
    /\ InitBuilder
    /\ other = None

NextFixedList ==
    \/ StartList
    \/ StartItem
    \/ Ignored
    \/ Text
    \/ EndList
    \/ Finish

SpecExample3 == InitExample3 /\ [][NextFixedList]_vars

(* C5: the stream of Example 3 builds exactly one top-level List of 6      *)
(* items whose 6th item is a List of exactly 1 item.                       *)
C5_Example3 ==
    result = "Ok" =>
        /\ Len(document.elements) = 1
        /\ document.elements[1].kind = "List"
        /\ Len(document.elements[1].elements) = 6
        /\ document.elements[1].elements[6].element.kind = "List"
        /\ Len(document.elements[1].elements[6].element.elements) = 1

----------------------------------------------------------------------------
(* The tokenizer on a document that holds only headings: each Heading      *)
(* scope is at the top level and holds one or more texts.                  *)

MaxHeadingEvents == 9

HeadingLevels == {"H1", "H2", "H3", "H4", "H5", "H6"}

HeadingEvents ==
    {HeadingEv(l) : l \in HeadingLevels} \cup {TextEv(t) : t \in Texts}
    \cup {EndEv("Heading")}

HeadingGrammar(stream, ev) ==
    LET open == ScopesOf(stream) IN
    IF ev.type = "Start" THEN open = << >>
    ELSE IF ev.type = "Text" THEN open = <<"Heading">>
    ELSE open = <<"Heading">> /\ Last(stream).type = "Text"

TokenizeHeadings ==
    /\ result = "running"
    /\ original = None
    /\ pos = Len(md_iterator)
    /\ Len(md_iterator) < MaxHeadingEvents
    /\ \E ev \in HeadingEvents :
          /\ HeadingGrammar(md_iterator, ev)
          /\ md_iterator' = Append(md_iterator, ev)
    /\ UNCHANGED <<pos, builder, result, document, lowering, roundtrip, other>>

NextHeadings ==
    \/ TokenizeHeadings
    \/ StartHeading
    \/ Text
    \/ EndScope
    \/ Finish

SpecHeadings == Init /\ [][NextHeadings]_vars

(* The stream read scope by scope: where the scopes start, where each      *)
(* ends, and the text between two places.                                  *)
StartsOf(stream) == {i \in 1..Len(stream) : stream[i].type = "Start"}

NthOf(S, k) == CHOOSE i \in S : Cardinality({m \in S : m < i}) = k - 1

EndOf(stream, i) ==
    CHOOSE j \in (i + 1)..Len(stream) :
        /\ stream[j].type = "End"
        /\ \A m \in (i + 1)..(j - 1) : stream[m].type # "End"

RECURSIVE TextBetween(_, _, _)
TextBetween(stream, i, j) ==
    IF i > j THEN << >>
    ELSE (IF stream[i].type = "Text" THEN stream[i].text ELSE << >>)
         \o TextBetween(stream, i + 1, j)

LevelNumber(l) == CHOOSE n \in 1..6 : <<"H1", "H2", "H3", "H4", "H5", "H6">>[n] = l

HeadersOf(stream) ==
    [k \in 1..Cardinality(StartsOf(stream)) |->
        LET i == NthOf(StartsOf(stream), k) IN
        [kind |-> "Header", level |-> LevelNumber(stream[i].level),
         text |-> TextBetween(stream, i, EndOf(stream, i))]]

(* C7: a stream of complete top-level Heading scopes builds exactly one    *)
(* Header per scope, in stream order, with the scope's level and the       *)
(* concatenation of the scope's texts.                                     *)
C7_HeadersInOrder ==
    (result = "Ok" /\ ScopesOf(md_iterator) = << >>) =>
        document.elements = HeadersOf(md_iterator)

C7_Witness ==
    /\ result = "Ok"
    /\ ScopesOf(md_iterator) = << >>
    /\ Len(document.elements) = 2
    /\ document.elements[1].level # document.elements[2].level
    /\ Len(document.elements[1].text) = 2
    /\ document.elements[1].text[1] # document.elements[1].text[2]

----------------------------------------------------------------------------
(* A stream that is one complete Table scope: its TableHead scope with the *)
(* header texts, then the body texts, then the Table end.                  *)

IsOneTable(stream) ==
    /\ stream # << >>
    /\ ScopesOf(stream) = << >>
    /\ Cardinality({i \in 1..Len(stream) : stream[i] = StartEv("Table")}) = 1

HeadEnd(stream) == CHOOSE i \in 1..Len(stream) : stream[i] = EndEv("TableHead")

HeaderCount(stream) == HeadEnd(stream) - 3

BodyCount(stream) == Len(stream) - 1 - HeadEnd(stream)

TableOf(stream) ==
    LET h == HeaderCount(stream)
        r == BodyCount(stream) \div h
    IN [kind |-> "Table",
        headers |-> [i \in 1..h |->
                        [element |-> [kind |-> "Text", text |-> stream[2 + i].text,
                                      size |-> 14],
                         width |-> 30]],
        rows |-> [j \in 1..r |->
                    [cells |-> [c \in 1..h |->
                        [element |->
                            [kind |-> "Text",
                             text |-> stream[HeadEnd(stream) + (j - 1) * h + c].text,
                             size |-> 14]]]]]]

(* C8: one Table scope with h >= 1 header texts and r*h body texts builds  *)
(* exactly one Table: the h headers in order and r rows of h cells, the    *)
(* body texts row by row.                                                  *)
C8_TableRowMajor ==
    (/\ result = "Ok"
     /\ IsOneTable(md_iterator)
     /\ HeaderCount(md_iterator) >= 1
     /\ BodyCount(md_iterator) % HeaderCount(md_iterator) = 0)
        => document.elements = <<TableOf(md_iterator)>>

(* Example 2's shape: two columns, two rows, texts that differ. *)
C8_Witness ==
    /\ result = "Ok"
    /\ IsOneTable(md_iterator)
    /\ HeaderCount(md_iterator) = 2
    /\ BodyCount(md_iterator) = 4
    /\ Len(document.elements) = 1
    /\ Len(document.elements[1].rows) = 2
    /\ document.elements[1].rows[1].cells[2] # document.elements[1].rows[2].cells[1]
    /\ document.elements[1].headers[1] # document.elements[1].headers[2]

----------------------------------------------------------------------------
(* generate_with_saver and element_to_ast_node: the comrak output tree.    *)
(* st threads what the recursion shares: the image_num RefCell, the calls  *)
(* made to the image saver, and whether a ? has returned the error.        *)

Node(value, children) == [value |-> value, children |-> children]

TextNode(t) == Node([kind |-> "Text", text |-> t], << >>)

ParagraphNode(children) == Node([kind |-> "Paragraph"], children)

AbortedNode == Node([kind |-> "Err"], << >>)

(* image_data.image_type().to_extension() *)
Extension(image_type) == <<"extension of", image_type>>

(* ImageFilename with the name formatted before the counter is            *)
(* incremented: the first image becomes image0.                            *)
ImageFilenameBeforeIncrement(n, image_type) ==
    <<"image", n - 1, Extension(image_type)>>

(* format!("image{}{}", image_num, image_extension) *)
ImageFilename(n, image_type) == <<"image", n, Extension(image_type)>>

(* The image saver handed to generate_with_saver: it fails on the images   *)
(* whose number is in `saver`, and on no other.                            *)
image_saver(saver, bytes, filename) == filename[2] \notin saver

(* if matches!(List) append, else wrap in a Paragraph unless it is one *)
ItemNode(child) ==
    Node([kind |-> "Item", tight |-> TRUE],
         IF child.value.kind \in {"List", "Paragraph"}
         THEN <<child>>
         ELSE <<ParagraphNode(<<child>>)>>)

(* CellNode with cell_node.append(cell_content) left out. *)
CellNodeEmpty(content) == Node([kind |-> "TableCell"], << >>)

CellNode(content) == Node([kind |-> "TableCell"], <<content>>)

(* RowNode with the header row built as NodeValue::TableRow(false). *)
RowNodeNeverHeader(is_header, cells) ==
    Node([kind |-> "TableRow", header |-> FALSE], cells)

RowNode(is_header, cells) ==
    Node([kind |-> "TableRow", header |-> is_header], cells)

ElementsOf(items) == [i \in 1..Len(items) |-> items[i].element]

RECURSIVE element_to_ast_node(_, _, _)
RECURSIVE LowerAll(_, _, _)
RECURSIVE LowerRows(_, _, _)

(* LowerAll without the ? after element_to_ast_node(..): the loop goes on  *)
(* to the next child after an Err.                                         *)
RECURSIVE LowerAllPastError(_, _, _)
LowerAllPastError(els, saver, st) ==
    IF els = << >>
    THEN [nodes |-> << >>, st |-> st]
    ELSE LET first == element_to_ast_node(Head(els), saver, st)
             rest == LowerAllPastError(Tail(els), saver, first.st)
         IN [nodes |-> <<first.node>> \o rest.nodes, st |-> rest.st]

(* for child in ..: element_to_ast_node(..)? in order, stopping at an Err *)
LowerAll(els, saver, st) ==
    IF els = << >> \/ st.failed
    THEN [nodes |-> << >>, st |-> st]
    ELSE LET first == element_to_ast_node(Head(els), saver, st) IN
         IF first.st.failed
         THEN [nodes |-> << >>, st |-> first.st]
         ELSE LET rest == LowerAll(Tail(els), saver, first.st) IN
              [nodes |-> <<first.node>> \o rest.nodes, st |-> rest.st]

(* for row in rows: a row node with one cell node per cell *)
LowerRows(rows, saver, st) ==
    IF rows = << >> \/ st.failed
    THEN [nodes |-> << >>, st |-> st]
    ELSE LET cells == LowerAll(ElementsOf(Head(rows).cells), saver, st) IN
         IF cells.st.failed
         THEN [nodes |-> << >>, st |-> cells.st]
         ELSE LET rest == LowerRows(Tail(rows), saver, cells.st) IN
              [nodes |-> <<RowNode(FALSE, [i \in 1..Len(cells.nodes) |->
                                              CellNode(cells.nodes[i])])>>
                         \o rest.nodes,
               st |-> rest.st]

element_to_ast_node(element, saver, st) ==
    CASE element.kind = "Text" ->
            [node |-> TextNode(element.text), st |-> st]
      [] element.kind = "Header" ->
            [node |-> Node([kind |-> "Heading", level |-> element.level,
                            setext |-> FALSE],
                           <<TextNode(element.text)>>),
             st |-> st]
      [] element.kind = "Paragraph" ->
            LET children == LowerAll(element.elements, saver, st) IN
            [node |-> IF children.st.failed THEN AbortedNode
                      ELSE ParagraphNode(children.nodes),
             st |-> children.st]
      [] element.kind = "List" ->
            LET children == LowerAll(ElementsOf(element.elements), saver, st) IN
            [node |-> IF children.st.failed THEN AbortedNode
                      ELSE Node([kind |-> "List",
                                 list_type |-> IF element.numbered THEN "Ordered"
                                               ELSE "Bullet",
                                 start |-> IF element.numbered THEN 1 ELSE 0,
                                 tight |-> TRUE],
                                [i \in 1..Len(children.nodes) |->
                                    ItemNode(children.nodes[i])]),
             st |-> children.st]
      [] element.kind = "Image" ->
            LET n == st.image_num + 1
                filename == ImageFilename(n, element.image_type)
            IN IF image_saver(saver, element.bytes, filename)
               THEN [node |-> ParagraphNode(
                                <<Node([kind |-> "Image", url |-> filename,
                                        title |-> element.title], << >>)>>),
                     st |-> [st EXCEPT !.image_num = n,
                                       !.saver_calls = Append(@, <<element.bytes, filename>>)]]
               ELSE [node |-> AbortedNode,
                     st |-> [st EXCEPT !.image_num = n,
                                       !.saver_calls = Append(@, <<element.bytes, filename>>),
                                       !.failed = TRUE]]
      [] element.kind = "Hyperlink" ->
            [node |-> Node([kind |-> "Link", url |-> element.url,
                            title |-> element.alt],
                           <<TextNode(element.title)>>),
             st |-> st]
      [] element.kind = "Table" ->
            LET header == LowerAll(ElementsOf(element.headers), saver, st)
                rows == LowerRows(element.rows, saver, header.st)
            IN [node |-> IF rows.st.failed THEN AbortedNode
                         ELSE Node([kind |-> "Table",
                                    num_columns |-> Len(element.headers),
                                    num_rows |-> Len(element.rows) + 1,
                                    alignments |-> [i \in 1..Len(element.headers) |->
                                                       "None"]],
                                   <<RowNode(TRUE, [i \in 1..Len(header.nodes) |->
                                                       CellNode(header.nodes[i])])>>
                                   \o rows.nodes),
                st |-> rows.st]
      [] OTHER -> [node |-> TextNode(EmptyString), st |-> st]

(* Lines 363-373 from a given value of the counter: the root's children,   *)
(* or the error.                                                           *)
LowerDocument(doc, saver, counter) ==
    LET all_elements == doc.page_header \o doc.elements \o doc.page_footer
        out == LowerAll(all_elements, saver,
                        [image_num |-> counter, saver_calls |-> << >>, failed |-> FALSE])
    IN [saver |-> saver,
        ok |-> ~out.st.failed,
        root |-> IF out.st.failed THEN None
                 ELSE Node([kind |-> "Document"], out.nodes),
        saver_calls |-> out.st.saver_calls,
        image_num |-> out.st.image_num]

(* let image_num = RefCell::new(0) *)
generate_with_saver(doc, saver) == LowerDocument(doc, saver, 0)

----------------------------------------------------------------------------
(* Calls of generate_with_saver on a Document, each with some image saver  *)

MaxBody == 1

MaxChildren == 2

SeqsUpTo(S, lo, hi) == UNION {[1..n -> S] : n \in lo..hi}

ImageA == ImageEl(<<"bytes A">>, <<"t">>, "a.png")

ImageB == ImageEl(<<"bytes B">>, EmptyString, "b.jpg")

ItemsOver(S) == {[i \in 1..Len(q) |-> ListItem(q[i])] : q \in SeqsUpTo(S, 1, MaxChildren)}

HeadersOver(S) ==
    {[i \in 1..Len(q) |-> [element |-> q[i], width |-> HeaderWidth]] :
        q \in SeqsUpTo(S, 1, MaxChildren)}

Blocks ==
    {HeaderEl(2, <<"a">>), HyperlinkEl(<<"a">>, "u")}
    \cup {ParagraphEl(q) :
            q \in SeqsUpTo({TextEl(<<"a">>), ImageA, ImageB}, 0, MaxChildren)}
    \cup {ListEl(items, FALSE) :
            items \in ItemsOver({TextEl(<<"a">>), ImageA,
                                 ListEl(<<ListItem(ImageB)>>, TRUE)})}
    \cup {TableEl(headers, rows) :
            headers \in HeadersOver({TextEl(<<"a">>), ImageA}),
            rows \in {<< >>, <<TableRow(<<[element |-> TextEl(<<"b">>)]>>)>>,
                      <<TableRow(<<[element |-> ImageB]>>)>>}}

Documents ==
    {[kind |-> "Document", elements |-> body, page_header |-> header,
      page_footer |-> footer] :
        body \in SeqsUpTo(Blocks, 0, MaxBody),
        header \in {<< >>, <<ImageB>>},
        footer \in {<< >>, <<ImageA>>}}

Savers == {{}, {1}, {2}}

InitLower ==
    /\ md_iterator = << >>
    /\ pos = 0
    /\ elements = << >>
    /\ current_element = None
    /\ list_depth = 0
    /\ table_element = None
    /\ result = "Ok"
    /\ document \in Documents
    /\ generated = << >>
    /\ image_num = 0
    /\ original = None
    /\ walk = "none"
    /\ other = None

(* generate_with_saver with image_num kept from one call to the next (a    *)
(* static counter) instead of RefCell::new(0).                             *)
GenerateCounterKept ==
    /\ result = "Ok"
    /\ Len(generated) < 2
    /\ \E saver \in Savers :
          LET out == LowerDocument(document, saver, image_num) IN
          /\ generated' = Append(generated, out)
          /\ image_num' = out.image_num
    /\ UNCHANGED <<md_iterator, pos, builder, result, document, roundtrip, other>>

(* One call of generate_with_saver(&document, image_saver). *)
Generate ==
    /\ result = "Ok"
    /\ Len(generated) < 2
    /\ \E saver \in Savers :
          LET out == generate_with_saver(document, saver) IN
          /\ generated' = Append(generated, out)
          /\ image_num' = out.image_num
    /\ UNCHANGED <<md_iterator, pos, builder, result, document, roundtrip, other>>

NextLower == Generate

SpecLower == InitLower /\ [][NextLower]_vars

NumbersOf(call) == [k \in 1..Len(call.saver_calls) |-> call.saver_calls[k][2][2]]

(* C10: two lowerings of the same Document with a saver that always        *)
(* succeeds give identical output trees, and each numbers its images from  *)
(* 1 on: no counter value carries over from one call to the next.          *)
C10_LoweringTwice ==
    \A i, j \in 1..Len(generated) :
        (generated[i].saver = {} /\ generated[j].saver = {}) =>
            /\ generated[i].ok
            /\ generated[i].root = generated[j].root
            /\ NumbersOf(generated[i]) = [k \in 1..Len(generated[i].saver_calls) |-> k]

C10_Witness ==
    /\ Len(generated) = 2
    /\ generated[1].saver = {}
    /\ generated[2].saver = {}
    /\ Len(generated[2].saver_calls) >= 3

----------------------------------------------------------------------------
(* The round trip of the testable properties: build, lower, re-tokenize by *)
(* walking the output tree, build again.                                   *)

MaxSimpleEvents == 8

(* The tokenizer on a document of top-level headings, paragraphs of text,  *)
(* single-level lists of text items and rectangular tables.                *)
SimpleEvents ==
    {HeadingEv("H2"), StartEv("Paragraph"), ListEv(FALSE), ListEv(TRUE),
     StartEv("Item"), StartEv("Table"), StartEv("TableHead")}
    \cup {TextEv(t) : t \in Texts}
    \cup {EndEv(t) : t \in {"Heading", "Paragraph", "Item", "List", "TableHead",
                            "Table"}}

LastIndexOf(stream, ev) ==
    CHOOSE i \in 0..Len(stream) :
        /\ i > 0 => stream[i] = ev
        /\ \A j \in (i + 1)..Len(stream) : stream[j] # ev

(* The open table has as many body texts as a whole number of rows takes. *)
WholeRows(stream) ==
    LET p == LastIndexOf(stream, StartEv("Table"))
        q == LastIndexOf(stream, EndEv("TableHead"))
    IN q > p /\ (Len(stream) - q) % (q - p - 2) = 0

SimpleGrammar(stream, ev) ==
    LET open == ScopesOf(stream)
        inner == IF open = << >> THEN "" ELSE Last(open)
    IN IF ev.type = "End"
       THEN /\ inner = ev.tag
            /\ ev.tag = "List" => Last(stream) = EndEv("Item")
            /\ ev.tag = "TableHead" => Last(stream).type = "Text"
            /\ ev.tag = "Table" => WholeRows(stream)
       ELSE IF ev.type = "Text"
       THEN \/ inner \in {"Heading", "Paragraph", "Item", "TableHead"}
            \/ inner = "Table" /\ Last(stream) # StartEv("Table")
       ELSE IF ev.tag = "Item" THEN inner = "List"
       ELSE IF ev.tag = "TableHead"
       THEN stream # << >> /\ Last(stream) = StartEv("Table")
       ELSE inner = ""

TokenizeSimple ==
    /\ result = "running"
    /\ original = None
    /\ pos = Len(md_iterator)
    /\ Len(md_iterator) < MaxSimpleEvents
    /\ \E ev \in SimpleEvents :
          /\ SimpleGrammar(md_iterator, ev)
          /\ md_iterator' = Append(md_iterator, ev)
    /\ UNCHANGED <<pos, builder, result, document, lowering, roundtrip, other>>

LevelName(n) == <<"H1", "H2", "H3", "H4", "H5", "H6">>[n]

(* The events of a node of the output tree, in order. With "tight lists"   *)
(* the paragraph that wraps the content of an item of a tight list emits   *)
(* no events of its own.                                                   *)
RECURSIVE WalkNode(_, _, _)
RECURSIVE WalkAll(_, _, _)

WalkAll(nodes, how, in_item) ==
    IF nodes = << >> THEN << >>
    ELSE WalkNode(Head(nodes), how, in_item) \o WalkAll(Tail(nodes), how, in_item)

WalkNode(node, how, in_item) ==
    LET v == node.value
        inside(start, tag) ==
            <<start>> \o WalkAll(node.children, how, FALSE) \o <<EndEv(tag)>>
    IN CASE v.kind = "Document" -> WalkAll(node.children, how, FALSE)
         [] v.kind = "Text" -> <<TextEv(v.text)>>
         [] v.kind = "Heading" -> inside(HeadingEv(LevelName(v.level)), "Heading")
         [] v.kind = "Paragraph" ->
               IF how = "tight lists" /\ in_item
               THEN WalkAll(node.children, how, FALSE)
               ELSE inside(StartEv("Paragraph"), "Paragraph")
         [] v.kind = "List" -> inside(ListEv(v.list_type = "Ordered"), "List")
         [] v.kind = "Item" ->
               <<StartEv("Item")>> \o WalkAll(node.children, how, v.tight)
               \o <<EndEv("Item")>>
         [] v.kind = "Table" -> inside(StartEv("Table"), "Table")
         [] v.kind = "TableRow" ->
               IF v.header THEN inside(StartEv("TableHead"), "TableHead")
               ELSE inside(StartEv("TableRow"), "TableRow")
         [] v.kind = "TableCell" -> inside(StartEv("TableCell"), "TableCell")
         [] v.kind = "Link" -> inside(LinkEv(v.url), "Link")
         [] v.kind = "Image" -> inside(ImageEv(v.url), "Image")

(* The first build has returned: lower its Document with a saver that      *)
(* always succeeds, walk the tree, and start the second build on the       *)
(* events of the walk.                                                     *)
Retokenize ==
    /\ result = "Ok"
    /\ original = None
    /\ \E how \in {"every node", "tight lists"} :
          /\ walk' = how
          /\ md_iterator' = WalkNode(generate_with_saver(document, {}).root, how, FALSE)
    /\ original' = document
    /\ pos' = 0
    /\ elements' = << >>
    /\ current_element' = None
    /\ list_depth' = 0
    /\ table_element' = None
    /\ result' = "running"
    /\ document' = None
    /\ UNCHANGED <<lowering, other>>

NextRoundTrip ==
    \/ TokenizeSimple
    \/ StartParagraph
    \/ StartHeading
    \/ StartList
    \/ StartItem
    \/ StartTable
    \/ StartTableHead
    \/ Ignored
    \/ Text
    \/ EndScope
    \/ EndList
    \/ EndTableHead
    \/ EndTable
    \/ Finish
    \/ Retokenize

SpecRoundTrip == Init /\ [][NextRoundTrip]_vars

(* What two elements have in common when they agree on element kinds, text *)
(* content and nesting.                                                    *)
RECURSIVE Structure(_)
StructureAll(els) == [i \in 1..Len(els) |-> Structure(els[i])]

Structure(el) ==
    CASE el.kind \in {"Text", "Header"} -> <<el.kind, el.text>>
      [] el.kind = "Paragraph" -> <<el.kind, [i \in 1..Len(el.elements) |->
                                                 Structure(el.elements[i])]>>
      [] el.kind = "List" -> <<el.kind, [i \in 1..Len(el.elements) |->
                                            Structure(el.elements[i].element)]>>
      [] el.kind = "Table" ->
            <<el.kind,
              [i \in 1..Len(el.headers) |-> Structure(el.headers[i].element)],
              [j \in 1..Len(el.rows) |->
                  [c \in 1..Len(el.rows[j].cells) |->
                      Structure(el.rows[j].cells[c].element)]]>>
      [] OTHER -> <<el.kind>>

SameStructure(d1, d2) ==
    /\ Len(d1.elements) = Len(d2.elements)
    /\ \A i \in 1..Len(d1.elements) :
          Structure(d1.elements[i]) = Structure(d2.elements[i])

IsComplete(stream) == ScopesOf(stream) = << >>

(* C9 as claimed: the walk emits the events of every node of the tree.     *)
C9_RoundTripEveryNode ==
    (result = "Ok" /\ original # None /\ walk = "every node")
        => SameStructure(document, original)

(* C9, amended: the round trip gives back the same element kinds, text and *)
(* nesting when the walk emits no paragraph events for the paragraph that  *)
(* wraps the content of a tight list item.                                 *)
C9_RoundTripTightLists ==
    (result = "Ok" /\ original # None /\ walk = "tight lists")
        => SameStructure(document, original)

(* A round trip of a list whose first item carries text: the second build  *)
(* gives back the document of the first.                                  *)
C9_Witness ==
    /\ result = "Ok"
    /\ original # None
    /\ walk = "tight lists"
    /\ Len(original.elements) >= 1
    /\ original.elements[1].kind = "List"
    /\ Len(original.elements[1].elements) >= 1
    /\ original.elements[1].elements[1].element.text # << >>
    /\ document = original

----------------------------------------------------------------------------
(* The Image elements of a Document in the order of the traversal: page    *)
(* header, body, page footer, each element depth-first.                    *)

RECURSIVE ImagesOf(_)
RECURSIVE ImagesOfAll(_)

ImagesOfAll(els) ==
    IF els = << >> THEN << >>
    ELSE ImagesOf(Head(els)) \o ImagesOfAll(Tail(els))

ImagesOf(el) ==
    CASE el.kind = "Image" -> <<el>>
      [] el.kind = "Paragraph" -> ImagesOfAll(el.elements)
      [] el.kind = "List" -> ImagesOfAll(ElementsOf(el.elements))
      [] el.kind = "Table" ->
            ImagesOfAll(ElementsOf(el.headers))
            \o ImagesOfAll([i \in 1..Len(el.rows) |->
                               ParagraphEl(ElementsOf(el.rows[i].cells))])
      [] OTHER -> << >>

ImagesOfDocument(doc) ==
    ImagesOfAll(doc.page_header \o doc.elements \o doc.page_footer)

(* The image reference nodes of an output tree, depth-first. *)
RECURSIVE ImageNodesOf(_)
RECURSIVE ImageNodesOfAll(_)

ImageNodesOfAll(nodes) ==
    IF nodes = << >> THEN << >>
    ELSE ImageNodesOf(Head(nodes)) \o ImageNodesOfAll(Tail(nodes))

ImageNodesOf(node) ==
    IF node.value.kind = "Image" THEN <<node>>
    ELSE ImageNodesOfAll(node.children)

(* C11: within one lowering the k-th Image of the traversal is handed to   *)
(* the saver with its own bytes under the name numbered k (numbers start   *)
(* at 1 and grow by one per Image, so no two are equal), and in the output *)
(* tree the k-th image reference carries that same name.                   *)
C11_OneCounterPerPass ==
    \A c \in 1..Len(generated) :
        LET call == generated[c]
            images == ImagesOfDocument(document)
            refs == IF call.ok THEN ImageNodesOf(call.root) ELSE << >>
        IN /\ Len(call.saver_calls) <= Len(images)
           /\ \A k \in 1..Len(call.saver_calls) :
                 /\ call.saver_calls[k][1] = images[k].bytes
                 /\ call.saver_calls[k][2] =
                       <<"image", k, Extension(images[k].image_type)>>
           /\ call.ok =>
                 /\ Len(call.saver_calls) = Len(images)
                 /\ Len(refs) = Len(images)
                 /\ \A k \in 1..Len(refs) :
                       refs[k].value.url = call.saver_calls[k][2]

(* A lowering that saved three images or more, one of them in a list item  *)
(* or a table cell.                                                        *)
C11_Witness ==
    \E c \in 1..Len(generated) :
        /\ generated[c].ok
        /\ Len(generated[c].saver_calls) >= 3
        /\ Len(document.elements) = 1
        /\ document.elements[1].kind \in {"List", "Table"}
        /\ ImagesOf(document.elements[1]) # << >>

(* C12: when the saver fails on an Image the lowering returns the error    *)
(* and no tree; the failing Image is the last one handed to the saver, and *)
(* the Images before it in the traversal were handed to it once each, in   *)
(* order.                                                                  *)
C12_SaveFailureAborts ==
    \A c \in 1..Len(generated) :
        LET call == generated[c]
            images == ImagesOfDocument(document)
            failing == {k \in 1..Len(images) : k \in call.saver}
        IN /\ call.ok <=> failing = {}
           /\ ~call.ok =>
                 LET f == CHOOSE k \in failing : \A j \in failing : k <= j IN
                 /\ call.root = None
                 /\ Len(call.saver_calls) = f
                 /\ \A k \in 1..f : call.saver_calls[k][1] = images[k].bytes

(* The saver fails on the second of three images or more. *)
C12_Witness ==
    \E c \in 1..Len(generated) :
        /\ ~generated[c].ok
        /\ generated[c].saver = {2}
        /\ Len(ImagesOfDocument(document)) >= 3
        /\ Len(generated[c].saver_calls) = 2

(* The top-level elements of a Document in the order they are lowered. *)
AllElements(doc) == doc.page_header \o doc.elements \o doc.page_footer

----------------------------------------------------------------------------
(* The tokenizer on any sequence of the scope events the builder knows,    *)
(* tables left out: starts, text and ends in any order.                    *)

MaxScopeEvents == 5

ScopeEvents ==
    {StartEv("Paragraph"), StartEv("Item"), HeadingEv("H1"), ListEv(FALSE),
     ImageEv("ok.png"), LinkEv("u"), TextEv(<<"a">>)}
    \cup {EndEv(t) : t \in {"Paragraph", "Heading", "Link", "Image", "List"}}

TokenizeScopes ==
    /\ result = "running"
    /\ original = None
    /\ pos = Len(md_iterator)
    /\ Len(md_iterator) < MaxScopeEvents
    /\ \E ev \in ScopeEvents : md_iterator' = Append(md_iterator, ev)
    /\ UNCHANGED <<pos, builder, result, document, lowering, roundtrip, other>>

NextScopes ==
    \/ TokenizeScopes
    \/ StartParagraph
    \/ StartHeading
    \/ StartList
    \/ StartItem
    \/ StartImage
    \/ StartLink
    \/ Text
    \/ EndScope
    \/ EndList
    \/ Finish

SpecScopes == Init /\ [][NextScopes]_vars

(* C15: an Image start whose load succeeds leaves the new Image alone as   *)
(* the open top-level scope, so that nothing of the scope that was open    *)
(* (Paragraph, Header, Hyperlink, or List with its items) remains in the   *)
(* builder, and leaves elements, list_depth and the table state unchanged. *)
C15_ImageReplacesOpenScope ==
    [][(IsStart("Image") /\ image_loader(Event.url).ok /\ pos' = pos + 1) =>
          /\ result' = "running"
          /\ current_element' =
                ImageEl(image_loader(Event.url).bytes, EmptyString, Event.url)
          /\ elements' = elements
          /\ list_depth' = list_depth
          /\ table_element' = table_element]_vars

(* An Image start arrived while a List holding an item was open. *)
C15_Witness ==
    /\ pos = 3
    /\ md_iterator[1] = ListEv(FALSE)
    /\ md_iterator[2] = StartEv("Item")
    /\ md_iterator[3] = ImageEv("ok.png")
    /\ result = "running"
    /\ current_element.kind = "Image"
    /\ list_depth = 1

ScopeEnds == {"Paragraph", "Heading", "Link", "Image"}

(* C16: an end event of Paragraph, Heading, Link or Image leaves an open   *)
(* List open and elements unchanged, appends any other open element to     *)
(* elements and leaves no scope open, and changes nothing when no scope is *)
(* open; which of the four ends arrived plays no part.                     *)
C16_ScopeEnd ==
    [][(Running /\ Event.type = "End" /\ Event.tag \in ScopeEnds
        /\ pos' = pos + 1) =>
          /\ result' = result
          /\ list_depth' = list_depth
          /\ table_element' = table_element
          /\ IF current_element = None \/ current_element.kind = "List"
             THEN /\ current_element' = current_element
                  /\ elements' = elements
             ELSE /\ current_element' = None
                  /\ elements' = Append(elements, current_element)]_vars

(* A Header sealed by the end of a Link, and a List kept open by the end   *)
(* of a Heading.                                                           *)
C16_Witness ==
    /\ pos = 4
    /\ md_iterator[1] = HeadingEv("H1")
    /\ md_iterator[2] = EndEv("Link")
    /\ md_iterator[3] = ListEv(FALSE)
    /\ md_iterator[4] = EndEv("Heading")
    /\ elements = <<HeaderEl(1, EmptyString)>>
    /\ current_element = ListEl(<< >>, FALSE)

(* C17: a List end decreases list_depth by one; the open scope is appended *)
(* to elements and cleared exactly when the new depth is 0, and otherwise  *)
(* both are unchanged. In a properly nested stream the end of a nested     *)
(* list therefore seals nothing, and the end of the outermost list seals   *)
(* the whole open List as one element.                                     *)
C17_ListEnd ==
    [][(IsEnd("List") /\ pos' = pos + 1) =>
          /\ list_depth' = list_depth - 1
          /\ result' = result
          /\ IF list_depth' = 0
             THEN /\ current_element' = None
                  /\ elements' = IF current_element = None THEN elements
                                 ELSE Append(elements, current_element)
             ELSE /\ current_element' = current_element
                  /\ elements' = elements
          /\ ProperlyNested(SubSeq(md_iterator, 1, pos + 1)) =>
                IF OpenLists > 1
                THEN elements' = elements /\ current_element' = current_element
                ELSE /\ current_element' = None
                     /\ current_element # None =>
                           /\ Len(elements') = Len(elements) + 1
                           /\ Last(elements') = current_element]_vars

(* A list holding a nested list was sealed as one element by the end of    *)
(* the outermost list, the end of the nested list having sealed nothing.   *)
C17_Witness ==
    /\ pos = 8
    /\ md_iterator[pos] = EndEv("List")
    /\ Count(SubSeq(md_iterator, 1, pos), EndEv("List")) = 2
    /\ ProperlyNested(Taken)
    /\ current_element = None
    /\ list_depth = 0
    /\ Len(elements) = 1
    /\ elements[1].kind = "List"
    /\ \E i \in 1..Len(elements[1].elements) :
          elements[1].elements[i].element.kind = "List"

(* The Hyperlink the builder holds for a Link start of this url: the open  *)
(* top-level scope, or the last item of the list accepting items.          *)
HoldsPlaceholder(url) ==
    /\ current_element # None
    /\ \/ current_element.kind = "Hyperlink" /\ current_element.url = url
       \/ /\ current_element.kind = "List"
          /\ LevelExists(current_element, list_depth)
          /\ LET level == ListAt(current_element, list_depth).elements IN
             /\ level # << >>
             /\ Last(level).element.kind = "Hyperlink"
             /\ Last(level).element.url = url

(* C18: once a Link start has been taken, a Hyperlink placeholder with the *)
(* event's url is the open top-level scope or the last item of the list    *)
(* accepting items, whatever scope was open when the event arrived.        *)
C18_LinkPlaceholderInserted ==
    (pos > 0 /\ result = "running" /\ md_iterator[pos].type = "Start"
     /\ md_iterator[pos].tag = "Link")
        => HoldsPlaceholder(md_iterator[pos].url)

InsertedKind(ev) ==
    CASE ev.tag = "Paragraph" -> "Paragraph"
      [] ev.tag = "Heading" -> "Header"
      [] ev.tag = "List" -> "List"
      [] ev.tag = "Item" -> "Text"
      [] ev.tag = "Link" -> "Hyperlink"
      [] ev.tag = "Image" -> "Image"

TargetLevel == IF list_depth < 1 THEN 1 ELSE list_depth

(* C19: an element inserted into an open List replaces the last item of    *)
(* the target level when it is a Hyperlink or a Header and that item is a  *)
(* Text (the count of the level is unchanged); in every other case it is   *)
(* appended and the count grows by one. The other items of the level and   *)
(* the shallower levels are left as they were.                             *)
C19_InsertionIntoList ==
    [][(Running /\ Event.type = "Start"
        /\ Event.tag \in {"Paragraph", "Heading", "List", "Item", "Link", "Image"}
        /\ current_element # None /\ current_element.kind = "List"
        /\ current_element' # None /\ current_element'.kind = "List"
        /\ pos' = pos + 1 /\ result' = "running") =>
          LET k == TargetLevel
              before == ListAt(current_element, k).elements
              after == ListAt(current_element', k).elements
              kind == InsertedKind(Event)
          IN /\ LevelExists(current_element, k)
             /\ LevelExists(current_element', k)
             /\ after # << >>
             /\ Last(after).element.kind = kind
             /\ IF kind \in {"Hyperlink", "Header"} /\ before # << >>
                   /\ Last(before).element.kind = "Text"
                THEN Len(after) = Len(before) /\ Front(after) = Front(before)
                ELSE Len(after) = Len(before) + 1 /\ Front(after) = before
             /\ \A j \in 1..(k - 1) :
                   /\ Len(ListAt(current_element', j).elements) =
                         Len(ListAt(current_element, j).elements)
                   /\ Front(ListAt(current_element', j).elements) =
                         Front(ListAt(current_element, j).elements)
                   /\ Last(ListAt(current_element', j).elements).element.numbered =
                         Last(ListAt(current_element, j).elements).element.numbered
             /\ current_element'.numbered = current_element.numbered
             /\ elements' = elements]_vars

(* A Link start replaced the Text item of a nested list's only item. *)
C19_Witness ==
    /\ pos = 5
    /\ md_iterator[4] = StartEv("Item")
    /\ md_iterator[5] = LinkEv("u")
    /\ result = "running"
    /\ list_depth = 2
    /\ current_element # None
    /\ current_element.kind = "List"
    /\ LevelExists(current_element, 2)
    /\ Len(current_element.elements) = 2
    /\ ListAt(current_element, 2).elements = <<ListItem(HyperlinkEl(EmptyString, "u"))>>

(* C20: the Text item that a Hyperlink or a Header replaces in a list is   *)
(* an empty placeholder: it holds no text delivered by a Text event.       *)
C20_OnlyPlaceholderDiscarded ==
    [][(Running /\ Event.type = "Start" /\ Event.tag \in {"Heading", "Link"}
        /\ current_element # None /\ current_element.kind = "List"
        /\ pos' = pos + 1 /\ result' = "running") =>
          LET before == ListAt(current_element, TargetLevel).elements IN
          (before # << >> /\ Last(before).element.kind = "Text")
              => Last(before).element.text = EmptyString]_vars

----------------------------------------------------------------------------
(* Two conversions at once. parse_with_loader and generate_with_saver keep *)
(* all their state in locals (lines 75-90 and 350-361), so a conversion is *)
(* its input and its locals. The variables above are the conversion that   *)
(* is running; `other` holds the locals of the one that is not, and Switch *)
(* hands the processor from one to the other between any two steps.        *)

Locals ==
    [md_iterator |-> md_iterator, pos |-> pos, elements |-> elements,
     current_element |-> current_element, list_depth |-> list_depth,
     table_element |-> table_element, result |-> result, document |-> document,
     generated |-> generated, image_num |-> image_num]

(* The locals of a call of parse_with_loader before its first event. *)
FreshCall(stream) ==
    [md_iterator |-> stream, pos |-> 0, elements |-> << >>,
     current_element |-> None, list_depth |-> 0, table_element |-> None,
     result |-> "running", document |-> None, generated |-> << >>,
     image_num |-> 0]

(* Switch with image_num a static shared by the calls instead of a local   *)
(* of generate_with_saver.                                                 *)
SwitchSharedCounter ==
    /\ other # None
    /\ md_iterator' = other.md_iterator
    /\ pos' = other.pos
    /\ elements' = other.elements
    /\ current_element' = other.current_element
    /\ list_depth' = other.list_depth
    /\ table_element' = other.table_element
    /\ result' = other.result
    /\ document' = other.document
    /\ generated' = other.generated
    /\ image_num' = image_num
    /\ other' = Locals
    /\ UNCHANGED roundtrip

Switch ==
    /\ other # None
    /\ md_iterator' = other.md_iterator
    /\ pos' = other.pos
    /\ elements' = other.elements
    /\ current_element' = other.current_element
    /\ list_depth' = other.list_depth
    /\ table_element' = other.table_element
    /\ result' = other.result
    /\ document' = other.document
    /\ generated' = other.generated
    /\ image_num' = other.image_num
    /\ other' = Locals
    /\ UNCHANGED roundtrip

(* One turn of the loop of lines 370-373 on the Document the build         *)
(* returned: the next top-level element is lowered with the call's saver   *)
(* and counter, the counter being created at 0 before the first turn.      *)
LowerNext ==
    /\ result = "Ok"
    /\ Len(generated) < Len(AllElements(document))
    /\ generated # << >> => Last(generated).ok
    /\ \E saver \in IF generated = << >> THEN Savers ELSE {generated[1].saver} :
          LET counter == IF generated = << >> THEN 0 ELSE image_num
              out == element_to_ast_node(
                         AllElements(document)[Len(generated) + 1], saver,
                         [image_num |-> counter, saver_calls |-> << >>,
                          failed |-> FALSE])
          IN /\ generated' = Append(generated,
                    [saver |-> saver, ok |-> ~out.st.failed, root |-> out.node,
                     saver_calls |-> out.st.saver_calls,
                     image_num |-> out.st.image_num])
             /\ image_num' = out.st.image_num
    /\ UNCHANGED <<md_iterator, pos, builder, result, document, roundtrip, other>>

(* Two images, each in its paragraph, the second with a caption. *)
InputImages ==
    <<StartEv("Paragraph"), ImageEv("ok.png"), EndEv("Image"), EndEv("Paragraph"),
      StartEv("Paragraph"), ImageEv("ok.png"), TextEv(<<"a">>), EndEv("Image"),
      EndEv("Paragraph")>>

(* A table, a heading holding a link, and an image. *)
InputTable ==
    <<StartEv("Table"), StartEv("TableHead"), TextEv(<<"a">>), EndEv("TableHead"),
      TextEv(<<"b">>), EndEv("Table"), HeadingEv("H2"), LinkEv("u"),
      TextEv(<<"a">>), EndEv("Link"), EndEv("Heading"),
      StartEv("Paragraph"), ImageEv("ok.png"), EndEv("Image"), EndEv("Paragraph")>>

(* A list holding a nested list, then an image that does not load. *)
InputList ==
    <<ListEv(TRUE), StartEv("Item"), TextEv(<<"a">>), EndEv("Item"),
      StartEv("Item"), ListEv(FALSE), StartEv("Item"), TextEv(<<"b">>),
      EndEv("Item"), EndEv("List"), EndEv("Item"), EndEv("List"),
      StartEv("Paragraph"), ImageEv("bad.png")>>

TwoInputs == {InputImages, InputTable, InputList}

InitTwo ==
    /\ md_iterator \in TwoInputs
    /\ InitBuilder
    /\ other \in {FreshCall(stream) : stream \in TwoInputs}

NextTwo ==
    \/ StartParagraph
    \/ StartHeading
    \/ StartList
    \/ StartItem
    \/ StartTable
    \/ StartTableHead
    \/ StartImage
    \/ StartLink
    \/ Ignored
    \/ Text
    \/ EndScope
    \/ EndList
    \/ EndTableHead
    \/ EndTable
    \/ Finish
    \/ LowerNext
    \/ Switch

SpecTwo == InitTwo /\ [][NextTwo]_vars

(* parse_with_loader running alone: the locals after each event of its     *)
(* input, computed as one fold over the stream.                            *)
Created(s, el, depth_after) ==
    LET r == process_element_creation(s.current_element, el, s.list_depth) IN
    IF r.fault = "none"
    THEN [s EXCEPT !.current_element = r.cur, !.list_depth = depth_after]
    ELSE [s EXCEPT !.result = r.fault]

StepAlone(s, ev) ==
    CASE ev.type = "Start" /\ ev.tag = "Paragraph" ->
            Created(s, ParagraphEl(<< >>), s.list_depth)
      [] ev.type = "Start" /\ ev.tag = "Heading" ->
            Created(s, HeaderEl(HeadingLevel(ev.level), EmptyString), s.list_depth)
      [] ev.type = "Start" /\ ev.tag = "List" ->
            Created(s, ListEl(<< >>, ev.numbered), s.list_depth + 1)
      [] ev.type = "Start" /\ ev.tag = "Item" ->
            Created(s, TextEl(EmptyString), s.list_depth)
      [] ev.type = "Start" /\ ev.tag = "Table" ->
            [s EXCEPT !.table_element = SomeTable(FALSE, TableEl(<< >>, << >>))]
      [] ev.type = "Start" /\ ev.tag = "TableHead" ->
            IF s.table_element = None THEN s
            ELSE [s EXCEPT !.table_element.is_header = TRUE]
      [] ev.type = "Start" /\ ev.tag = "Image" ->
            LET loaded == image_loader(ev.url) IN
            IF loaded.ok
            THEN [s EXCEPT !.current_element =
                              ImageEl(loaded.bytes, EmptyString, ev.url)]
            ELSE [s EXCEPT !.result = "ImageLoadFailed"]
      [] ev.type = "Start" /\ ev.tag = "Link" ->
            Created(s, HyperlinkEl(EmptyString, ev.url), s.list_depth)
      [] ev.type = "Text" ->
            LET r == TextIntoCurrent(s.current_element, ev.text, s.list_depth) IN
            IF r.fault = "none"
            THEN [s EXCEPT !.current_element = r.cur,
                           !.table_element = TextIntoTable(s.table_element, ev.text)]
            ELSE [s EXCEPT !.result = r.fault]
      [] ev.type = "End" /\ ev.tag \in ScopeEnds ->
            LET r == SealCurrent(s.current_element, s.elements) IN
            [s EXCEPT !.current_element = r.cur, !.elements = r.els]
      [] ev.type = "End" /\ ev.tag = "List" ->
            LET r == SealList(s.current_element, s.elements, s.list_depth) IN
            [s EXCEPT !.current_element = r.cur, !.elements = r.els,
                      !.list_depth = r.depth]
      [] ev.type = "End" /\ ev.tag = "TableHead" ->
            IF s.table_element = None THEN s
            ELSE [s EXCEPT !.table_element.is_header = FALSE]
      [] ev.type = "End" /\ ev.tag = "Table" ->
            IF s.table_element = None THEN s
            ELSE [s EXCEPT !.table_element = None,
                           !.elements = Append(s.elements, s.table_element.table)]
      [] OTHER -> s

RECURSIVE AloneAfter(_, _)
AloneAfter(stream, k) ==
    IF k = 0 THEN FreshCall(stream)
    ELSE [StepAlone(AloneAfter(stream, k - 1), stream[k]) EXCEPT !.pos = k]

(* The saver calls of the turns of the lowering loop taken so far. *)
RECURSIVE CallsOf(_)
CallsOf(turns) ==
    IF turns = << >> THEN << >>
    ELSE CallsOf(Front(turns)) \o Last(turns).saver_calls

(* The locals c of a conversion are those of the same conversion running   *)
(* alone on its input: the build after c.pos events, and the lowering of   *)
(* its Document after Len(c.generated) turns with its saver.               *)
AsAlone(c) ==
    LET b == AloneAfter(c.md_iterator, c.pos) IN
    /\ IF b.result # "running"
       THEN c.result = b.result
       ELSE /\ c.result \in {"running", "Ok"}
            /\ c.elements = b.elements
            /\ c.current_element = b.current_element
            /\ c.list_depth = b.list_depth
            /\ c.table_element = b.table_element
    /\ c.result = "Ok" =>
          /\ c.pos = Len(c.md_iterator)
          /\ c.document = Document(b.elements)
    /\ c.result # "Ok" => c.generated = << >>
    /\ c.generated # << >> =>
          LET n == Len(c.generated)
              alone == generate_with_saver(
                           [c.document EXCEPT !.elements = SubSeq(@, 1, n)],
                           c.generated[1].saver)
          IN /\ c.image_num = alone.image_num
             /\ CallsOf(c.generated) = alone.saver_calls
             /\ Last(c.generated).ok = alone.ok
             /\ alone.ok =>
                   alone.root.children = [i \in 1..n |-> c.generated[i].root]

(* C14: under every interleaving of the steps of two conversions, each on  *)
(* its own input, the open scope, list depth, table state, sealed          *)
(* elements, image counter and result of each are those of the same        *)
(* conversion running alone.                                               *)
C14_ConversionsDoNotInterfere ==
    /\ AsAlone(Locals)
    /\ other # None => AsAlone(other)

(* Both conversions are in the middle of their lowering, each having saved *)
(* its first image and with elements left to lower.                        *)
C14_Witness ==
    /\ other # None
    /\ result = "Ok"
    /\ other.result = "Ok"
    /\ md_iterator = InputImages
    /\ Len(generated) = 1
    /\ image_num = 1
    /\ Len(other.generated) >= 1
    /\ Len(other.generated) < Len(other.document.elements)
    /\ other.image_num = 1

----------------------------------------------------------------------------
(* C21: a Text event arriving while a List is the open top-level scope     *)
(* changes only the last item of the list reached by descending            *)
(* list_depth - 1 levels: a Text item has the text appended, a Hyperlink   *)
(* has its title replaced, a Header has its text replaced. The number of   *)
(* items of every level on the way, the other items of those levels, the   *)
(* sealed elements and list_depth stay as they were.                       *)
C21_TextIntoListItem ==
    [][(Running /\ Event.type = "Text"
        /\ current_element # None /\ current_element.kind = "List"
        /\ pos' = pos + 1 /\ result' = "running") =>
          LET k == TargetLevel
              before == ListAt(current_element, k).elements
              after == ListAt(current_element', k).elements
              item == Last(before).element
              item_after == Last(after).element
          IN /\ LevelExists(current_element, k)
             /\ LevelExists(current_element', k)
             /\ before # << >>
             /\ Len(after) = Len(before)
             /\ Front(after) = Front(before)
             /\ CASE item.kind = "Text" ->
                        item_after = [item EXCEPT !.text = item.text \o Event.text]
                  [] item.kind = "Hyperlink" ->
                        item_after = [item EXCEPT !.title = Event.text]
                  [] item.kind = "Header" ->
                        item_after = [item EXCEPT !.text = Event.text]
                  [] OTHER -> item_after = item
             /\ \A j \in 1..(k - 1) :
                   /\ Len(ListAt(current_element', j).elements) =
                         Len(ListAt(current_element, j).elements)
                   /\ Front(ListAt(current_element', j).elements) =
                         Front(ListAt(current_element, j).elements)
                   /\ Last(ListAt(current_element', j).elements).element.numbered =
                         Last(ListAt(current_element, j).elements).element.numbered
             /\ current_element'.numbered = current_element.numbered
             /\ elements' = elements
             /\ list_depth' = list_depth]_vars

(* A second Text event reached the Hyperlink that is the last item of an   *)
(* open list: the title is the event's text, not the two texts.            *)
C21_Witness ==
    /\ pos = 5
    /\ md_iterator[3] = LinkEv("u")
    /\ md_iterator[4] = TextEv(<<"a">>)
    /\ md_iterator[5] = TextEv(<<"a">>)
    /\ result = "running"
    /\ current_element = ListEl(<<ListItem(HyperlinkEl(<<"a">>, "u"))>>, FALSE)

----------------------------------------------------------------------------
(* C22: while a table is open a Text event is added to it, whatever the    *)
(* open top-level scope does with the same text: in header mode one header *)
(* is appended; otherwise one cell is appended to the last row when that   *)
(* row has fewer cells than there are headers, and else (no row, or a last *)
(* row that is not short) a new row of that one cell is started. What the  *)
(* table already holds is kept.                                            *)
C22_TextIntoOpenTable ==
    [][(Running /\ Event.type = "Text" /\ table_element # None
        /\ pos' = pos + 1 /\ result' = "running") =>
          LET table == table_element.table
              headers == table.headers
              rows == table.rows
              cell == [element |-> TextEl(Event.text)]
          IN /\ table_element' # None
             /\ table_element'.is_header = table_element.is_header
             /\ IF table_element.is_header
                THEN /\ table_element'.table.headers =
                           Append(headers, [element |-> TextEl(Event.text),
                                            width |-> HeaderWidth])
                     /\ table_element'.table.rows = rows
                ELSE /\ table_element'.table.headers = headers
                     /\ table_element'.table.rows =
                           IF rows # << >> /\ Len(Last(rows).cells) < Len(headers)
                           THEN Append(Front(rows),
                                       [cells |-> Append(Last(rows).cells, cell)])
                           ELSE Append(rows, [cells |-> <<cell>>])]_vars

----------------------------------------------------------------------------
(* The tokenizer on any sequence of paragraph and heading events with two  *)
(* different texts.                                                        *)

MaxRunEvents == 7

RunEvents ==
    {StartEv("Paragraph"), HeadingEv("H3"), EndEv("Paragraph"), EndEv("Heading")}
    \cup {TextEv(t) : t \in Texts}

TokenizeRuns ==
    /\ result = "running"
    /\ original = None
    /\ pos = Len(md_iterator)
    /\ Len(md_iterator) < MaxRunEvents
    /\ \E ev \in RunEvents : md_iterator' = Append(md_iterator, ev)
    /\ UNCHANGED <<pos, builder, result, document, lowering, roundtrip, other>>

NextRuns ==
    \/ TokenizeRuns
    \/ StartParagraph
    \/ StartHeading
    \/ Text
    \/ EndScope
    \/ Finish

SpecRuns == Init /\ [][NextRuns]_vars

(* The texts of the Text events of a stream, in order, as one string. *)
RECURSIVE TextsOf(_)
TextsOf(stream) ==
    IF stream = << >> THEN EmptyString
    ELSE IF Last(stream).type = "Text"
    THEN TextsOf(Front(stream)) \o Last(stream).text
    ELSE TextsOf(Front(stream))

(* The position of the start event that opened the open top-level scope:   *)
(* the first start taken since no scope was open.                          *)
RECURSIVE OpenedAt(_)
OpenedAt(stream) ==
    IF stream = << >> THEN 0
    ELSE LET before == OpenedAt(Front(stream))
             ev == Last(stream)
         IN IF ev.type = "Start" /\ before = 0 THEN Len(stream)
            ELSE IF ev.type = "End" THEN 0
            ELSE before

(* C23: a Text event arriving while a Paragraph is open appends one Text   *)
(* run to its children and keeps the runs it had; arriving while a Header  *)
(* is open it extends the header's text, so that an open Header's text is  *)
(* always the texts of the Text events received since its start, in order. *)
C23_TextIntoParagraphOrHeader ==
    [][/\ (Running /\ Event.type = "Text" /\ pos' = pos + 1
           /\ current_element # None /\ current_element.kind = "Paragraph") =>
             /\ current_element'.kind = "Paragraph"
             /\ current_element'.elements =
                   Append(current_element.elements, TextEl(Event.text))
             /\ elements' = elements
       /\ (Running /\ Event.type = "Text" /\ pos' = pos + 1
           /\ current_element # None /\ current_element.kind = "Header") =>
             /\ current_element' =
                   [current_element EXCEPT !.text = current_element.text \o Event.text]
             /\ elements' = elements
       /\ (current_element' # None /\ current_element'.kind = "Header") =>
             LET taken == SubSeq(md_iterator', 1, pos')
                 start == OpenedAt(taken)
             IN /\ start > 0
                /\ taken[start].tag = "Heading"
                /\ current_element'.text =
                      TextsOf(SubSeq(taken, start, Len(taken)))]_vars

(* A Header holds two different texts in the order they came, and a        *)
(* Paragraph holds two runs.                                               *)
C23_Witness ==
    /\ pos = 7
    /\ elements = <<ParagraphEl(<<TextEl(<<"b">>), TextEl(<<"a">>)>>)>>
    /\ current_element = HeaderEl(3, <<"a", "b">>)

----------------------------------------------------------------------------
IsPrefix(s, t) == Len(s) <= Len(t) /\ SubSeq(t, 1, Len(s)) = s

(* C25: elements is append-only: every step leaves the elements sealed so  *)
(* far in place and unchanged, so each value of elements is a prefix of    *)
(* the later ones, and of the body of the Document once it is returned.    *)
C25_SealedElementsKept ==
    [][/\ IsPrefix(elements, elements')
       /\ result' = "Ok" => IsPrefix(elements, document'.elements)]_vars

(* Two different elements were sealed one after the other and returned. *)
C25_Witness ==
    /\ result = "Ok"
    /\ pos = 4
    /\ Len(document.elements) = 2
    /\ document.elements[1].kind = "Header"
    /\ document.elements[2].kind = "Paragraph"

(* C28: elements grows only by an end event, which appends the scope or    *)
(* the table it seals, and the returned Document's body is elements as it  *)
(* stands when the stream ends: a scope or a table still open then is left *)
(* out, and the build returns Ok all the same.                             *)
C28_BodyIsWhatWasSealed ==
    [][/\ elements' # elements =>
             /\ Running
             /\ Event.type = "End"
             /\ \/ /\ current_element # None
                    /\ elements' = Append(elements, current_element)
                \/ /\ table_element # None
                    /\ elements' = Append(elements, table_element.table)
       /\ (result = "running" /\ pos = Len(md_iterator) /\ pos' = pos
           /\ md_iterator' = md_iterator) =>
             /\ result' = "Ok"
             /\ document' = Document(elements)]_vars

(* Ok was returned with one sealed element while a list and a table were   *)
(* still open.                                                             *)
C28_Witness ==
    /\ result = "Ok"
    /\ pos = 4
    /\ current_element # None
    /\ current_element.kind = "List"
    /\ table_element # None
    /\ Len(elements) = 1
    /\ document = Document(elements)

----------------------------------------------------------------------------
(* The tokenizer on any sequence of events among which are the ones the    *)
(* builder has no arm for: block quotes, the end of an item, the rows and  *)
(* cells of a table, soft breaks.                                          *)

MaxUnrecognizedEvents == 4

UnrecognizedEvents ==
    {StartEv(t) : t \in {"BlockQuote", "TableRow", "TableCell"}}
    \cup {EndEv(t) : t \in {"BlockQuote", "Item", "TableRow", "TableCell"}}
    \cup {OtherEv}

ArmedEvents ==
    {StartEv("Paragraph"), ListEv(FALSE), StartEv("Item"), StartEv("Table"),
     StartEv("TableHead"), TextEv(<<"a">>), EndEv("TableHead"), EndEv("List")}

TokenizeUnrecognized ==
    /\ result = "running"
    /\ original = None
    /\ pos = Len(md_iterator)
    /\ Len(md_iterator) < MaxUnrecognizedEvents
    /\ \E ev \in UnrecognizedEvents \cup ArmedEvents :
          md_iterator' = Append(md_iterator, ev)
    /\ UNCHANGED <<pos, builder, result, document, lowering, roundtrip, other>>

NextUnrecognized ==
    \/ TokenizeUnrecognized
    \/ StartParagraph
    \/ StartList
    \/ StartItem
    \/ StartTable
    \/ StartTableHead
    \/ Ignored
    \/ Text
    \/ EndList
    \/ EndTableHead
    \/ Finish

SpecUnrecognized == Init /\ [][NextUnrecognized]_vars

(* C26: a start event other than Paragraph, Heading, List, Item, Table,    *)
(* TableHead, Image, Link, an end event other than Paragraph, Heading,     *)
(* Link, Image, List, TableHead, Table, and an event that is neither a     *)
(* start, a text nor an end, is taken without changing elements, the open  *)
(* scope, list_depth or the table state, and without ending the build.     *)
C26_UnrecognizedEventsSkipped ==
    [][(/\ Running
        /\ pos' = pos + 1
        /\ \/ /\ Event.type = "Start"
              /\ Event.tag \notin {"Paragraph", "Heading", "List", "Item", "Table",
                                   "TableHead", "Image", "Link"}
           \/ /\ Event.type = "End"
              /\ Event.tag \notin {"Paragraph", "Heading", "Link", "Image", "List",
                                   "TableHead", "Table"}
           \/ Event.type \notin {"Start", "Text", "End"}) =>
          /\ elements' = elements
          /\ current_element' = current_element
          /\ list_depth' = list_depth
          /\ table_element' = table_element
          /\ result' = "running"]_vars

(* The end of an item and the start of a table cell were both skipped      *)
(* while a list holding an item was open.                                  *)
C26_Witness ==
    \E i \in 1..pos :
        /\ md_iterator[i] \in {EndEv("Item"), StartEv("TableCell")}
        /\ md_iterator[pos] \in {EndEv("Item"), StartEv("TableCell")}
        /\ md_iterator[i] # md_iterator[pos]
        /\ result = "running"
        /\ current_element # None
        /\ current_element.kind = "List"
        /\ current_element.elements # << >>

----------------------------------------------------------------------------
ListStarts(stream) ==
    Cardinality({i \in 1..Len(stream) :
                    stream[i].type = "Start" /\ stream[i].tag = "List"})

ListEnds(stream) ==
    Cardinality({i \in 1..Len(stream) :
                    stream[i].type = "End" /\ stream[i].tag = "List"})

(* C27: while a scope that is not a List is open, a start of Paragraph,    *)
(* Heading, Item or Link changes neither the open scope nor elements, and  *)
(* a List start changes neither but still increments list_depth; so as     *)
(* long as the build runs list_depth is the number of List starts minus    *)
(* the number of List ends taken so far.                                   *)
C27_StartsDroppedInOpenScope ==
    [][/\ (Running /\ Event.type = "Start" /\ pos' = pos + 1
           /\ Event.tag \in {"Paragraph", "Heading", "Item", "Link", "List"}
           /\ current_element # None /\ current_element.kind # "List") =>
             /\ current_element' = current_element
             /\ elements' = elements
             /\ result' = "running"
             /\ list_depth' = IF Event.tag = "List" THEN list_depth + 1
                              ELSE list_depth
       /\ result' \in {"running", "Ok"} =>
             LET taken == SubSeq(md_iterator', 1, pos') IN
             list_depth' = ListStarts(taken) - ListEnds(taken)]_vars

(* A List start arrived while a Header was open: nothing was inserted, the *)
(* depth is 1, and the List end that followed sealed the Header.           *)
C27_Witness ==
    /\ pos = 3
    /\ md_iterator[1] = HeadingEv("H1")
    /\ md_iterator[2] = ListEv(FALSE)
    /\ md_iterator[3] = EndEv("List")
    /\ result = "running"
    /\ list_depth = 0
    /\ elements = <<HeaderEl(1, EmptyString)>>

(* C29: in a table whose h >= 1 headers are all there before the first     *)
(* body text, at every point of the build every row has between 1 and h    *)
(* cells and every row but the last has exactly h.                         *)
RowsWellFormed(table) ==
    LET h == Len(table.headers) IN
    \A i \in 1..Len(table.rows) :
        LET n == Len(table.rows[i].cells) IN
        /\ n >= 1
        /\ n <= h
        /\ i < Len(table.rows) => n = h

C29_RowsNeverEmptyNorTooLong ==
    /\ (table_element # None /\ ~table_element.is_header)
          => RowsWellFormed(table_element.table)
    /\ (table_element # None /\ table_element.is_header)
          => table_element.table.rows = << >>
    /\ \A i \in TablesOf(elements) : RowsWellFormed(elements[i])

(* An open table of two headers holds a full row and a short last row. *)
C29_Witness ==
    /\ table_element # None
    /\ ~table_element.is_header
    /\ Len(table_element.table.headers) = 2
    /\ Len(table_element.table.rows) = 2
    /\ Len(table_element.table.rows[1].cells) = 2
    /\ Len(table_element.table.rows[2].cells) = 1

====
